---- MODULE Spec2Model ----
(***************************************************************************)
(* The Last Helldiver (src/main_commented.cpp): the start screen, the      *)
(* frame loop of main() and the end-of-session sequence, as a state        *)
(* machine whose program counter pc follows the statements of main().      *)
(*                                                                         *)
(* Representation of the program's numbers:                                *)
(*  - sf::Time is an integer count of microseconds, as in SFML.            *)
(*  - Positions and velocities (sf::Vector2f) are fixed point, in tenths   *)
(*    of a pixel; a quotient is truncated toward zero and a square root    *)
(*    is rounded down.  Enemy speeds (1.0 + k/10) are exact in this unit.  *)
(*  - SafeZone::radius is an exact IEEE binary32 value, held as an         *)
(*    integer multiple of 2^-18 pixel; F32Sub is binary32 subtraction      *)
(*    with round-to-nearest-even.                                          *)
(***************************************************************************)
EXTENDS Integers, Sequences, FiniteSets, TLC

VARIABLES
    pc,                 \* position in main() / showStartScreen()
    windowOpen,         \* sf::RenderWindow::isOpen()
    now,                \* wall clock, microseconds
    clockStart,         \* sf::Clock clock: time of its last restart
    bulletClockStart,   \* sf::Clock bulletClock: time of its last restart
    timeSinceLastSpawn, \* float timeSinceLastSpawn, microseconds
    player,             \* Player: [pos, vel, health]
    enemies,            \* std::vector<Enemy>: [id, pos, vel, speed, health]
    bullets,            \* std::vector<Bullet>: [id, pos, vel]
    radius,             \* SafeZone::radius
    score,              \* int score
    killCount,          \* int killCount
    file,               \* contents of game_score.txt: <<>> or <<score, kills>>
    session,            \* the environment: which inputs it supplies, "short" or "long"
    hist                \* history: what the run has done so far (not program state)

vars == <<pc, windowOpen, now, clockStart, bulletClockStart, timeSinceLastSpawn,
          player, enemies, bullets, radius, score, killCount, file, session, hist>>

(***************************************************************************)
(* Bounds of the model and the inputs the environment may supply.  A short *)
(* session takes every input of the sets below for MaxFrames frames; a     *)
(* long session holds W throughout, starts with the enemies on the player, *)
(* clicks in some of the frames SessionClickFrames only and runs until the *)
(* player dies.  An edge session holds W, S and D, starts with the enemies *)
(* in a corner, clicks in some of the frames EdgeClickFrames only, and     *)
(* runs until the player dies right of the safe zone.  A                   *)
(* crowd session runs at one frame every three seconds with the enemies on *)
(* the player, who stands still and clicks in some of the frames           *)
(* CrowdClickFrames only.                                                  *)
(***************************************************************************)
MaxFrames == 2
MaxEvents == 2
MaxSessionFrames == 220
MaxZoneFrames == 3100

\* fixed point: n pixels in tenths of a pixel
Px(n) == n * 10

\* (rand() % WINDOW_WIDTH, rand() % WINDOW_HEIGHT): where an enemy appears
OnPlayer == <<Px(600), Px(350)>>
Near == <<Px(618), Px(350)>>
Corner == <<Px(0), Px(0)>>
\* the five draws of lines 247-249, and the draw of line 343
Layouts == {<<OnPlayer, Corner, Corner, Corner, Corner>>,
            <<OnPlayer, OnPlayer, Near, Corner, Corner>>}
SpawnPoints == {OnPlayer, Corner}
\* rand() % 20
SpeedRolls == {0}
\* sf::Mouse::getPosition(window)
MousePoints == {<<Px(600), Px(350)>>, <<Px(700), Px(350)>>}
\* the movement keys held when handleInput() samples the keyboard
KeySets == {{}, {"W", "D"}}
\* microseconds that pass before an event is handled
EventGaps == {0, 300000, 3000000}
\* microseconds a frame takes (60 frames per second)
FrameGaps == {16667}

\* the long session
SessionLayouts == {<<OnPlayer, OnPlayer, OnPlayer, OnPlayer, OnPlayer>>}
SessionKeySets == {{"W"}}
SessionMousePoints == {<<Px(600), Px(0)>>, <<Px(600), 0 - Px(500)>>}
SessionEventGaps == {300001}
SessionClickFrames == {1, 64, 118}

\* the edge session
EdgeLayouts == {<<Corner, Corner, Corner, Corner, Corner>>}
EdgeKeySets == {{"W", "S", "D"}}
EdgeSpawnPoints == {<<Px(1140), Px(350)>>, Corner}
EdgeMousePoints == {<<Px(1200), Px(350)>>}
EdgeClickFrames == {181, 182}

\* the crowd session
CloseBy == <<Px(601), Px(350)>>
CrowdLayouts == {<<OnPlayer, OnPlayer, OnPlayer, OnPlayer, CloseBy>>}
CrowdKeySets == {{}}
CrowdSpawnPoints == {OnPlayer}
CrowdMousePoints == {OnPlayer}
CrowdEventGaps == {0}
CrowdFrameGaps == {3000000}
CrowdClickFrames == {11, 12, 13}

Sessions == {"short", "long", "edge", "crowd"}

TheLayouts ==
    CASE session = "long" -> SessionLayouts
      [] session = "edge" -> EdgeLayouts
      [] session = "crowd" -> CrowdLayouts
      [] OTHER -> Layouts
TheKeySets ==
    CASE session = "long" -> SessionKeySets
      [] session = "edge" -> EdgeKeySets
      [] session = "crowd" -> CrowdKeySets
      [] OTHER -> KeySets
TheSpawnPoints ==
    CASE session = "edge" -> EdgeSpawnPoints
      [] session = "crowd" -> CrowdSpawnPoints
      [] OTHER -> SpawnPoints
TheMousePoints ==
    CASE session = "long" -> SessionMousePoints
      [] session = "edge" -> EdgeMousePoints
      [] session = "crowd" -> CrowdMousePoints
      [] OTHER -> MousePoints
TheEventGaps ==
    CASE session \in {"long", "edge"} -> SessionEventGaps
      [] session = "crowd" -> CrowdEventGaps
      [] OTHER -> EventGaps
TheFrameGaps == IF session = "crowd" THEN CrowdFrameGaps ELSE FrameGaps
TheEventKinds == IF session = "short" THEN {"Closed", "LeftClick"} ELSE {"LeftClick"}
TheEventFrames ==
    CASE session = "long" -> SessionClickFrames
      [] session = "edge" -> EdgeClickFrames
      [] session = "crowd" -> CrowdClickFrames
      [] OTHER -> 1..MaxFrames
TheFrameBound == IF session = "short" THEN MaxFrames ELSE MaxSessionFrames

(***************************************************************************)
(* Program constants.                                                      *)
(***************************************************************************)
WINDOW_WIDTH == Px(1200)
WINDOW_HEIGHT == Px(700)
PLAYER_SPEED == Px(3)
ENEMY_SPEED == Px(1)
BULLET_SPEED == Px(7)
BULLET_COOLDOWN == 300000
SPAWN_INTERVAL == 3000000
MAX_ENEMIES == 10
INITIAL_ENEMIES == 5
PLAYER_HEALTH == 100
ENEMY_HEALTH == 50
BULLET_DAMAGE == 25
BULLET_RADIUS == Px(5)
HIT_MARGIN == Px(12)
ContactRangeOfHit == Px(17)
CONTACT_RANGE == Px(20)
KILL_SCORE == 10
GAME_OVER_PAUSE == 3000000

\* binary32 values are held in units of 2^-18
F32Unit == 262144
\* 0.1f = 13421773 * 2^-27
SAFE_ZONE_SHRINK_RATE == 13421773
MinRadius == 50 * F32Unit
InitialRadius == 350 * F32Unit


(***************************************************************************)
(* Arithmetic.                                                             *)
(***************************************************************************)
\* float division, truncated toward zero at the fixed-point resolution
TruncDiv(a, b) == IF a >= 0 THEN a \div b ELSE -((-a) \div b)

RECURSIVE SqrtSearch(_, _, _)
SqrtSearch(n, lo, hi) ==
    IF lo >= hi THEN lo
    ELSE LET mid == (lo + hi + 1) \div 2
         IN  IF mid * mid <= n THEN SqrtSearch(n, mid, hi)
                               ELSE SqrtSearch(n, lo, mid - 1)

\* std::sqrt, rounded down
Sqrt(n) == SqrtSearch(n, 0, 46340)

\* std::sqrt(dx * dx + dy * dy) of the difference of two positions
Length(d) == Sqrt(d[1] * d[1] + d[2] * d[2])

VecAdd(p, v) == <<p[1] + v[1], p[2] + v[2]>>
VecSub(p, q) == <<p[1] - q[1], p[2] - q[2]>>

\* binary32: the spacing of the values in the binade of v (v in [32, 512) pixels)
F32Ulp(v) ==
    IF v >= 256 * F32Unit THEN 8
    ELSE IF v >= 128 * F32Unit THEN 4
    ELSE IF v >= 64 * F32Unit THEN 2
    ELSE 1

\* binary32 a - b, round to nearest, ties to even; a in units of 2^-18 and
\* b27 in units of 2^-27, the exact difference being q + f/512
F32Sub(a, b27) ==
    LET whole == b27 \div 512
        frac  == b27 % 512
        q     == IF frac = 0 THEN a - whole ELSE a - whole - 1
        f     == IF frac = 0 THEN 0 ELSE 512 - frac
        u     == F32Ulp(q)
        rem   == q % u
        base  == q - rem
        off   == rem * 512 + f
        half  == u * 256
    IN  IF off < half THEN base
        ELSE IF off > half THEN base + u
        ELSE IF (base \div u) % 2 = 0 THEN base ELSE base + u

(***************************************************************************)
(* Entity, Player, Enemy, Bullet, SafeZone.                                *)
(***************************************************************************)
\* Entity::takeDamage
TakeDamageHeals(health, amount) == health + amount
TakeDamage(health, amount) == health - amount

\* Entity::isAlive
IsAliveAtZero(health) == health >= 0
IsAlive(health) == health > 0

\* Player::Player
NewPlayer ==
    [pos |-> <<WINDOW_WIDTH \div 2, WINDOW_HEIGHT \div 2>>, vel |-> <<0, 0>>,
     health |-> PLAYER_HEALTH]

\* Player::handleInput, keys being the movement keys held
HandleInputKeepsVelocity(keys) ==
    LET vy1 == IF "W" \in keys THEN player.vel[2] - PLAYER_SPEED ELSE player.vel[2]
        vy2 == IF "S" \in keys THEN vy1 + PLAYER_SPEED ELSE vy1
        vx1 == IF "A" \in keys THEN player.vel[1] - PLAYER_SPEED ELSE player.vel[1]
        vx2 == IF "D" \in keys THEN vx1 + PLAYER_SPEED ELSE vx1
    IN  <<vx2, vy2>>
HandleInput(keys) ==
    LET vy1 == IF "W" \in keys THEN 0 - PLAYER_SPEED ELSE 0
        vy2 == IF "S" \in keys THEN vy1 + PLAYER_SPEED ELSE vy1
        vx1 == IF "A" \in keys THEN 0 - PLAYER_SPEED ELSE 0
        vx2 == IF "D" \in keys THEN vx1 + PLAYER_SPEED ELSE vx1
    IN  <<vx2, vy2>>

\* Enemy::Enemy, roll being rand() % 20
NewEnemy(id, p, roll) ==
    [id |-> id, pos |-> p, vel |-> <<0, 0>>, speed |-> ENEMY_SPEED + roll,
     health |-> ENEMY_HEALTH]

\* Enemy::update
EnemyUpdateStops(e, playerPos) ==
    LET direction == VecSub(playerPos, e.pos)
        length    == Length(direction)
    IN  IF length > 0
        THEN [e EXCEPT !.vel = <<TruncDiv(direction[1] * e.speed, length),
                                 TruncDiv(direction[2] * e.speed, length)>>]
        ELSE [e EXCEPT !.vel = <<0, 0>>]
EnemyUpdate(e, playerPos) ==
    LET direction == VecSub(playerPos, e.pos)
        length    == Length(direction)
    IN  IF length > 0
        THEN [e EXCEPT !.vel = <<TruncDiv(direction[1] * e.speed, length),
                                 TruncDiv(direction[2] * e.speed, length)>>]
        ELSE e

\* Entity::move, Bullet::move
Move(o) == [o EXCEPT !.pos = VecAdd(o.pos, o.vel)]

\* Bullet::Bullet
NewBullet(id, p, dir) ==
    LET length == Length(dir)
    IN  [id |-> id, pos |-> p,
         vel |-> IF length > 0
                 THEN <<TruncDiv(dir[1] * BULLET_SPEED, length),
                        TruncDiv(dir[2] * BULLET_SPEED, length)>>
                 ELSE <<0, 0>>]

\* SafeZone::update
SafeZoneUpdateUnguarded(r) == F32Sub(r, SAFE_ZONE_SHRINK_RATE)
SafeZoneUpdate(r) ==
    IF r > MinRadius THEN F32Sub(r, SAFE_ZONE_SHRINK_RATE) ELSE r

\* SafeZone::isInside: distance < radius, the distance in tenths of a pixel
IsInside(r, p) ==
    LET center   == <<WINDOW_WIDTH \div 2, WINDOW_HEIGHT \div 2>>
        distance == Length(VecSub(p, center))
    IN  distance < (10 * r + F32Unit - 1) \div F32Unit

(***************************************************************************)
(* The initial state: main() about to call showStartScreen().              *)
(***************************************************************************)
NoPlayer == [pos |-> <<0, 0>>, vel |-> <<0, 0>>, health |-> 0]

NoHistory ==
    [frames |-> 0,      \* iterations of the main loop started
     events |-> 0,      \* events handled by the main loop
     made |-> 0,        \* enemies constructed
     shots |-> 0,       \* bullets constructed
     clicks |-> <<>>,   \* left clicks handled: [at, elapsed, fired]
     hits |-> <<>>,     \* bullet hits of the current frame: [enemy, bullet]
     seen |-> <<>>,     \* enemies the pass of the current frame went through
     keys |-> {},       \* movement keys held in the current frame
     health |-> 0,      \* the player's health when the current frame began
     spawns |-> <<>>,   \* frame clock readings of the frames that spawned
     run |-> 0,         \* latest frames in a row, the first begun at full health,
                        \* with the player outside the zone and out of contact
     log |-> <<>>]      \* steps of the end-of-session sequence taken

Init ==
    /\ session \in Sessions
    /\ pc = "start"
    /\ windowOpen = TRUE
    /\ now = 0
    /\ clockStart = 0
    /\ bulletClockStart = 0
    /\ timeSinceLastSpawn = 0
    /\ player = NoPlayer
    /\ enemies = <<>>
    /\ bullets = <<>>
    /\ radius = InitialRadius
    /\ score = 0
    /\ killCount = 0
    /\ file = <<>>
    /\ hist = NoHistory

(***************************************************************************)
(* showStartScreen: one iteration of its while (true) loop.  Every pending *)
(* event is polled (a Closed event closes the window), then the loop       *)
(* leaves only if Enter is held.                                           *)
(***************************************************************************)
StartScreen ==
    /\ pc = "start"
    /\ \E closed \in BOOLEAN, enter \in BOOLEAN :
         /\ windowOpen' = (windowOpen /\ ~closed)
         /\ pc' = IF enter THEN "setup" ELSE "start"
    /\ UNCHANGED <<session, now, clockStart, bulletClockStart, timeSinceLastSpawn, player,
                   enemies, bullets, radius, score, killCount, file, hist>>

(***************************************************************************)
(* main, lines 236-266: the player, the five enemies, the safe zone, the   *)
(* clocks and the counters.                                                *)
(***************************************************************************)
Setup ==
    /\ pc = "setup"
    /\ \E ps \in TheLayouts, rs \in [1..INITIAL_ENEMIES -> SpeedRolls] :
         enemies' = [i \in 1..INITIAL_ENEMIES |-> NewEnemy(i, ps[i], rs[i])]
    /\ player' = NewPlayer
    /\ bullets' = <<>>
    /\ radius' = InitialRadius
    /\ clockStart' = now
    /\ bulletClockStart' = now
    /\ timeSinceLastSpawn' = 0
    /\ score' = 0
    /\ killCount' = 0
    /\ hist' = [hist EXCEPT !.made = INITIAL_ENEMIES]
    /\ pc' = "loop"
    /\ UNCHANGED <<session, windowOpen, now, file>>

(***************************************************************************)
(* main, line 269: while (window.isOpen()).                                *)
(***************************************************************************)
LoopTest ==
    /\ pc = "loop"
    /\ IF windowOpen
       THEN /\ hist.frames < TheFrameBound
            /\ pc' = "poll"
            /\ hist' = [hist EXCEPT !.frames = @ + 1, !.hits = <<>>, !.seen = <<>>,
                                    !.health = player.health]
       ELSE /\ pc' = "done"
            /\ hist' = hist
    /\ UNCHANGED <<session, windowOpen, now, clockStart, bulletClockStart, timeSinceLastSpawn,
                   player, enemies, bullets, radius, score, killCount, file>>

(***************************************************************************)
(* main, lines 272-284: one iteration of while (window.pollEvent(event)),  *)
(* for an event of the kind given, handled gap microseconds after the      *)
(* previous step, with the mouse at mouse.  The environment sends at most  *)
(* MaxEvents events.                                                       *)
(***************************************************************************)
\* line 277: bulletClock.getElapsedTime().asSeconds() > BULLET_COOLDOWN
CooldownOverInclusive(elapsed) == elapsed >= BULLET_COOLDOWN
CooldownReversed(elapsed) == elapsed < BULLET_COOLDOWN
CooldownOver(elapsed) == elapsed > BULLET_COOLDOWN

PollEvent ==
    /\ pc = "poll"
    /\ hist.events < MaxEvents
    /\ hist.frames \in TheEventFrames
    /\ \E kind \in TheEventKinds, gap \in TheEventGaps, mouse \in TheMousePoints :
         LET t       == now + gap
             elapsed == t - bulletClockStart
             fire    == kind = "LeftClick" /\ CooldownOver(elapsed)
         IN  /\ now' = t
             /\ windowOpen' = (windowOpen /\ kind # "Closed")
             /\ bullets' = IF fire
                           THEN Append(bullets, NewBullet(hist.shots + 1, player.pos,
                                                          VecSub(mouse, player.pos)))
                           ELSE bullets
             /\ bulletClockStart' = IF fire THEN t ELSE bulletClockStart
             /\ hist' = [hist EXCEPT
                           !.events = @ + 1,
                           !.shots = IF fire THEN @ + 1 ELSE @,
                           !.clicks = IF kind = "LeftClick"
                                      THEN Append(@, [at |-> t, elapsed |-> elapsed,
                                                      fired |-> fire])
                                      ELSE @]
    /\ pc' = "poll"
    /\ UNCHANGED <<session, clockStart, timeSinceLastSpawn, player, enemies, radius, score,
                   killCount, file>>

\* pollEvent returns false: the event loop ends
PollDone ==
    /\ pc = "poll"
    /\ pc' = "move"
    /\ UNCHANGED <<session, windowOpen, now, clockStart, bulletClockStart, timeSinceLastSpawn,
                   player, enemies, bullets, radius, score, killCount, file, hist>>


(***************************************************************************)
(* main, lines 287-292: the frame time gap microseconds after the previous *)
(* step, the spawn timer, and the player's input and move.                 *)
(***************************************************************************)
PlayerStep ==
    /\ pc = "move"
    /\ \E gap \in TheFrameGaps, keys \in TheKeySets :
         LET t         == now + gap
             deltaTime == t - clockStart
         IN  /\ now' = t
             /\ clockStart' = t
             /\ timeSinceLastSpawn' = timeSinceLastSpawn + deltaTime
             /\ player' = Move([player EXCEPT !.vel = HandleInput(keys)])
             /\ hist' = [hist EXCEPT !.keys = keys]
    /\ pc' = "bullets"
    /\ UNCHANGED <<session, windowOpen, bulletClockStart, enemies, bullets, radius, score,
                   killCount, file>>

(***************************************************************************)
(* main, lines 294-300: every bullet moves; one that is then outside the   *)
(* window is erased.                                                       *)
(***************************************************************************)
\* std::vector::erase of the element at index i
Erase(s, i) == SubSeq(s, 1, i - 1) \o SubSeq(s, i + 1, Len(s))

\* it = v.erase(it): the iterator erase returns is at the element that
\* followed the erased one, which now has the erased one's index
NextAfterEraseSkips(i) == i + 1
NextAfterErase(i) == i

\* line 297
OutOfWindowSidesOnly(p) == p[1] < 0 \/ p[1] > WINDOW_WIDTH
OutOfWindow(p) ==
    p[1] < 0 \/ p[1] > WINDOW_WIDTH \/ p[2] < 0 \/ p[2] > WINDOW_HEIGHT

RECURSIVE BulletLoop(_, _)
BulletLoop(bs, i) ==
    IF i > Len(bs) THEN bs
    ELSE LET b == Move(bs[i])
         IN  IF OutOfWindow(b.pos)
             THEN BulletLoop(Erase(bs, i), NextAfterErase(i))
             ELSE BulletLoop([bs EXCEPT ![i] = b], i + 1)

BulletPass ==
    /\ pc = "bullets"
    /\ bullets' = BulletLoop(bullets, 1)
    /\ pc' = "enemies"
    /\ UNCHANGED <<session, windowOpen, now, clockStart, bulletClockStart, timeSinceLastSpawn,
                   player, enemies, radius, score, killCount, file, hist>>

(***************************************************************************)
(* main, lines 302-334: every enemy turns to the player and moves, takes   *)
(* the first bullet in range, and is erased if that kills it or else       *)
(* checked for contact with the player.                                    *)
(***************************************************************************)
RECURSIVE BulletScan(_, _)

\* line 322: break
ScanGoesOn(r, j) == BulletScan(r, j)
Break(r, j) == r

\* lines 309-324, from bullet j on; r = [e, bs, dead, score, kills, hits]
BulletScan(r, j) ==
    IF j > Len(r.bs) THEN r
    ELSE LET b    == r.bs[j]
             dist == Length(VecSub(b.pos, r.e.pos))
         IN  IF dist < BULLET_RADIUS + HIT_MARGIN
             THEN LET health == TakeDamage(r.e.health, BULLET_DAMAGE)
                      killed == ~IsAlive(health)
                  IN  Break([e     |-> [r.e EXCEPT !.health = health],
                             bs    |-> Erase(r.bs, j),
                             dead  |-> (r.dead \/ killed),
                             score |-> IF killed THEN r.score + KILL_SCORE ELSE r.score,
                             kills |-> IF killed THEN r.kills + 1 ELSE r.kills,
                             hits  |-> Append(r.hits, [enemy |-> r.e.id, bullet |-> b.id])],
                            j)
             ELSE BulletScan(r, j + 1)

\* lines 303-334, from enemy i on; st = [es, bs, health, score, kills, hits,
\* seen]
RECURSIVE EnemyLoop(_, _)
EnemyLoop(st, i) ==
    IF i > Len(st.es) THEN st
    ELSE LET e == Move(EnemyUpdate(st.es[i], player.pos))
             r == BulletScan([e |-> e, bs |-> st.bs, dead |-> FALSE,
                              score |-> st.score, kills |-> st.kills,
                              hits |-> st.hits], 1)
             touch == Length(VecSub(player.pos, r.e.pos)) < CONTACT_RANGE
         IN  IF r.dead
             THEN EnemyLoop([es |-> Erase(st.es, i), bs |-> r.bs,
                             health |-> st.health, score |-> r.score,
                             kills |-> r.kills, hits |-> r.hits,
                             seen |-> Append(st.seen, e.id)], NextAfterErase(i))
             ELSE EnemyLoop([es |-> [st.es EXCEPT ![i] = r.e], bs |-> r.bs,
                             health |-> IF touch THEN TakeDamage(st.health, 1)
                                                 ELSE st.health,
                             score |-> r.score, kills |-> r.kills,
                             hits |-> r.hits,
                             seen |-> Append(st.seen, e.id)], i + 1)

EnemyPass ==
    /\ pc = "enemies"
    /\ LET st == EnemyLoop([es |-> enemies, bs |-> bullets, health |-> player.health,
                            score |-> score, kills |-> killCount, hits |-> <<>>,
                            seen |-> <<>>], 1)
       IN  /\ enemies' = st.es
           /\ bullets' = st.bs
           /\ player' = [player EXCEPT !.health = st.health]
           /\ score' = st.score
           /\ killCount' = st.kills
           /\ hist' = [hist EXCEPT !.hits = st.hits, !.seen = st.seen]
    /\ pc' = "zone"
    /\ UNCHANGED <<session, windowOpen, now, clockStart, bulletClockStart, timeSinceLastSpawn,
                   radius, file>>

(***************************************************************************)
(* main, lines 336-339: the safe zone shrinks; a player outside it is hurt.*)
(***************************************************************************)
\* line 331: no enemy of es is in contact with a player at p
NoContact(es, p) ==
    \A i \in 1..Len(es) : ~(Length(VecSub(p, es[i].pos)) < CONTACT_RANGE)

ZoneStep ==
    /\ pc = "zone"
    /\ radius' = SafeZoneUpdate(radius)
    /\ player' = IF IsInside(radius', player.pos)
                 THEN player
                 ELSE [player EXCEPT !.health = TakeDamage(@, 1)]
    /\ hist' = [hist EXCEPT !.run =
                   IF /\ ~IsInside(radius', player.pos)
                      /\ NoContact(enemies, player.pos)
                      /\ (@ > 0 \/ hist.health = PLAYER_HEALTH)
                   THEN @ + 1 ELSE 0]
    /\ pc' = "spawn"
    /\ UNCHANGED <<session, windowOpen, now, clockStart, bulletClockStart, timeSinceLastSpawn,
                   enemies, bullets, score, killCount, file>>

(***************************************************************************)
(* main, lines 341-345: the spawn check.                                   *)
(***************************************************************************)
\* line 342: the condition of the spawn check
SpawnDueAtInterval(timer, count) == timer >= SPAWN_INTERVAL /\ count < MAX_ENEMIES
SpawnDueAtCap(timer, count) == timer > SPAWN_INTERVAL /\ count <= MAX_ENEMIES
SpawnDue(timer, count) == timer > SPAWN_INTERVAL /\ count < MAX_ENEMIES

\* line 344: the timer after the spawn check
TimerResetWhenOver(timer, count) == IF timer > SPAWN_INTERVAL THEN 0 ELSE timer
TimerAfterCheck(timer, count) == IF SpawnDue(timer, count) THEN 0 ELSE timer

SpawnCheck ==
    /\ pc = "spawn"
    /\ IF SpawnDue(timeSinceLastSpawn, Len(enemies))
       THEN /\ \E p \in TheSpawnPoints, roll \in SpeedRolls :
                 enemies' = Append(enemies, NewEnemy(hist.made + 1, p, roll))
            /\ hist' = [hist EXCEPT !.made = @ + 1, !.spawns = Append(@, clockStart)]
       ELSE UNCHANGED <<enemies, hist>>
    /\ timeSinceLastSpawn' = TimerAfterCheck(timeSinceLastSpawn, Len(enemies))
    /\ pc' = "draw"
    /\ UNCHANGED <<session, windowOpen, now, clockStart, bulletClockStart, player, bullets,
                   radius, score, killCount, file>>

(***************************************************************************)
(* main, lines 347-358: the HUD and the frame are drawn.                   *)
(***************************************************************************)
Draw ==
    /\ pc = "draw"
    /\ pc' = "check"
    /\ UNCHANGED <<session, windowOpen, now, clockStart, bulletClockStart, timeSinceLastSpawn,
                   player, enemies, bullets, radius, score, killCount, file, hist>>

(***************************************************************************)
(* main, lines 360-379: the end of the session.                            *)
(***************************************************************************)
\* line 361
EndCheckOnClose ==
    /\ pc = "check"
    /\ pc' = IF ~IsAlive(player.health) \/ ~windowOpen THEN "save" ELSE "loop"
    /\ UNCHANGED <<session, windowOpen, now, clockStart, bulletClockStart, timeSinceLastSpawn,
                   player, enemies, bullets, radius, score, killCount, file, hist>>
EndCheckBelowZero ==
    /\ pc = "check"
    /\ pc' = IF player.health < 0 THEN "save" ELSE "loop"
    /\ UNCHANGED <<session, windowOpen, now, clockStart, bulletClockStart, timeSinceLastSpawn,
                   player, enemies, bullets, radius, score, killCount, file, hist>>
EndCheck ==
    /\ pc = "check"
    /\ pc' = IF ~IsAlive(player.health) THEN "save" ELSE "loop"
    /\ UNCHANGED <<session, windowOpen, now, clockStart, bulletClockStart, timeSinceLastSpawn,
                   player, enemies, bullets, radius, score, killCount, file, hist>>

\* lines 363-365
SaveScore ==
    /\ pc = "save"
    /\ file' = <<score, killCount>>
    /\ hist' = [hist EXCEPT !.log = Append(@, "save")]
    /\ pc' = "screen"
    /\ UNCHANGED <<session, windowOpen, now, clockStart, bulletClockStart, timeSinceLastSpawn,
                   player, enemies, bullets, radius, score, killCount>>

\* lines 368-374
EndScreen ==
    /\ pc = "screen"
    /\ hist' = [hist EXCEPT !.log = Append(@, "screen")]
    /\ pc' = "pause"
    /\ UNCHANGED <<session, windowOpen, now, clockStart, bulletClockStart, timeSinceLastSpawn,
                   player, enemies, bullets, radius, score, killCount, file>>

\* line 377
Pause ==
    /\ pc = "pause"
    /\ now' = now + GAME_OVER_PAUSE
    /\ hist' = [hist EXCEPT !.log = Append(@, "pause")]
    /\ pc' = "close"
    /\ UNCHANGED <<session, windowOpen, clockStart, bulletClockStart, timeSinceLastSpawn,
                   player, enemies, bullets, radius, score, killCount, file>>

\* line 378
CloseWindowMissing ==
    /\ pc = "close"
    /\ hist' = [hist EXCEPT !.log = Append(@, "close")]
    /\ pc' = "loop"
    /\ UNCHANGED <<session, windowOpen, now, clockStart, bulletClockStart,
                   timeSinceLastSpawn, player, enemies, bullets, radius, score,
                   killCount, file>>
CloseWindow ==
    /\ pc = "close"
    /\ windowOpen' = FALSE
    /\ hist' = [hist EXCEPT !.log = Append(@, "close")]
    /\ pc' = "loop"
    /\ UNCHANGED <<session, now, clockStart, bulletClockStart, timeSinceLastSpawn, player,
                   enemies, bullets, radius, score, killCount, file>>

(***************************************************************************)
(* The program.                                                            *)
(***************************************************************************)
Next ==
    \/ StartScreen
    \/ Setup
    \/ LoopTest
    \/ PollEvent
    \/ PollDone
    \/ PlayerStep
    \/ BulletPass
    \/ EnemyPass
    \/ ZoneStep
    \/ SpawnCheck
    \/ Draw
    \/ EndCheck
    \/ SaveScore
    \/ EndScreen
    \/ Pause
    \/ CloseWindow

Spec == Init /\ [][Next]_vars

(***************************************************************************)
(* The safe zone alone: SafeZone::update once per frame, from the radius   *)
(* the constructor sets, with hist.frames counting the frames.             *)
(***************************************************************************)
SafeZoneFrame ==
    /\ hist.frames < MaxZoneFrames
    /\ radius' = SafeZoneUpdate(radius)
    /\ hist' = [hist EXCEPT !.frames = @ + 1]
    /\ UNCHANGED <<session, pc, windowOpen, now, clockStart, bulletClockStart,
                   timeSinceLastSpawn, player, enemies, bullets, score, killCount,
                   file>>

InitZone == Init /\ session = "long"

SpecZone == InitZone /\ [][SafeZoneFrame]_vars


(***************************************************************************)
(* The claims.                                                             *)
(***************************************************************************)
Ids(seq) == {seq[i].id : i \in 1..Len(seq)}
ById(seq, id) == seq[CHOOSE i \in 1..Len(seq) : seq[i].id = id]
Started == pc \notin {"start", "setup"}
EndSequence == <<"save", "screen", "pause", "close">>

\* C1: in no step after construction does the health of the player or of an
\* enemy of the active set increase.
C1_HealthNeverIncreases ==
    [][pc # "setup" =>
         /\ player'.health <= player.health
         /\ \A id \in Ids(enemies) \cap Ids(enemies') :
              ById(enemies', id).health <= ById(enemies, id).health]_vars

C1_Witness ==
    /\ player.health < PLAYER_HEALTH
    /\ \E i \in 1..Len(enemies) : enemies[i].health < ENEMY_HEALTH

\* C2: of two left clicks handled less than the cooldown apart (two of the same
\* event-poll pass included), if the first creates a bullet the second creates
\* none; so two bullet creations are at least the cooldown apart, and the number
\* of bullets created is the number of accepted clicks.
C2_OneShotPerCooldown ==
    /\ \A i, j \in 1..Len(hist.clicks) :
         (i < j /\ hist.clicks[i].fired
                /\ hist.clicks[j].at - hist.clicks[i].at < BULLET_COOLDOWN)
           => ~hist.clicks[j].fired
    /\ hist.shots = Cardinality({i \in 1..Len(hist.clicks) : hist.clicks[i].fired})

C2_Witness ==
    \E i, j \in 1..Len(hist.clicks) :
       /\ i < j
       /\ hist.clicks[i].fired
       /\ hist.clicks[j].at = hist.clicks[i].at
       /\ ~hist.clicks[j].fired
       /\ Len(bullets) = 1

\* A step that handles a left click, and what it does to the bullets and to the
\* cooldown clock.
ClickStep == Len(hist'.clicks) = Len(hist.clicks) + 1
ClickFires ==
    /\ Len(bullets') = Len(bullets) + 1
    /\ SubSeq(bullets', 1, Len(bullets)) = bullets
    /\ bullets'[Len(bullets')].pos = player.pos
    /\ bulletClockStart' = now'
ClickIgnored ==
    /\ bullets' = bullets
    /\ bulletClockStart' = bulletClockStart

\* C3 as stated: a left click handled when the time since the last shot is at
\* least the cooldown, exactly the cooldown included, creates one bullet at the
\* player's position and restarts the cooldown clock; an earlier click creates
\* none and leaves the clock running.
C3_FiresAtCooldown ==
    [][ClickStep =>
         IF now' - bulletClockStart >= BULLET_COOLDOWN THEN ClickFires
                                                       ELSE ClickIgnored]_vars

\* C3 amended: the click fires if and only if strictly more than the cooldown
\* has passed; a click at exactly the cooldown is ignored.
C3_FiresAfterCooldown ==
    [][ClickStep =>
         IF now' - bulletClockStart > BULLET_COOLDOWN THEN ClickFires
                                                      ELSE ClickIgnored]_vars

C3_Witness ==
    \E i, j \in 1..Len(hist.clicks) :
       /\ hist.clicks[i].elapsed = BULLET_COOLDOWN
       /\ ~hist.clicks[i].fired
       /\ hist.clicks[j].elapsed > BULLET_COOLDOWN
       /\ hist.clicks[j].fired

\* C4: the end-of-session sequence runs at most once and in the order save,
\* end screen, pause, close; it has run in full whenever the loop test sees a
\* dead player; the file holds the score and kill count; and from the save on
\* no frame starts and score, kill count, health, enemies, bullets, radius and
\* file never change.
C4_SessionEndOnce ==
    /\ [](/\ \E n \in 0..Len(EndSequence) : hist.log = SubSeq(EndSequence, 1, n)
          /\ hist.log # <<>> => (player.health <= 0 /\ file = <<score, killCount>>)
          /\ hist.log = <<>> => file = <<>>
          /\ (pc \in {"loop", "done"} /\ Started /\ player.health <= 0)
               => (hist.log = EndSequence /\ ~windowOpen)
          /\ (pc \in {"save", "screen", "pause", "close"}) => player.health <= 0)
    /\ [][hist.log # <<>> =>
            /\ hist'.frames = hist.frames
            /\ <<score, killCount, player, enemies, bullets, radius, file>>' =
               <<score, killCount, player, enemies, bullets, radius, file>>
            /\ pc' \notin {"poll", "move", "bullets", "enemies", "zone", "spawn",
                           "draw", "check", "save"}]_vars

C4_Witness ==
    /\ pc = "done"
    /\ hist.log = EndSequence
    /\ file = <<score, killCount>>
    /\ player.health <= 0

\* C5: on the start screen a close signal ends the waiting: the start screen is
\* never still waiting with the window closed.
C5_CloseEndsStartScreen == pc = "start" => windowOpen

\* Is the bullet at b within hitting range of an enemy at e (line 314)?
InRange(b, e) ==
    (b[1] - e[1]) * (b[1] - e[1]) + (b[2] - e[2]) * (b[2] - e[2])
      < (BULLET_RADIUS + HIT_MARGIN) * (BULLET_RADIUS + HIT_MARGIN)
HitEnemies == {hist.hits[k].enemy : k \in 1..Len(hist.hits)}
HitBullets == {hist.hits[k].bullet : k \in 1..Len(hist.hits)}
Untouched(b) == b.id \notin HitBullets'

\* C6: in the enemy pass of a frame no enemy takes more than one bullet, a hit
\* costs it exactly 25, the bullet it takes is the first in range of those left
\* in the list, every other bullet stays as it was, and at most one bullet per
\* enemy is removed.
C6_OneBulletPerEnemy ==
    [][pc = "enemies" =>
         /\ \A k, m \in 1..Len(hist'.hits) :
              hist'.hits[k].enemy = hist'.hits[m].enemy => k = m
         /\ HitEnemies' \subseteq Ids(enemies)
         /\ \A id \in Ids(enemies') :
              ById(enemies', id).health =
                ById(enemies, id).health - (IF id \in HitEnemies' THEN BULLET_DAMAGE ELSE 0)
         /\ \A k \in 1..Len(hist'.hits) :
              LET h == hist'.hits[k]
              IN  h.enemy \in Ids(enemies') =>
                    /\ InRange(ById(bullets, h.bullet).pos, ById(enemies', h.enemy).pos)
                    /\ \A n \in 1..Len(bullets) :
                         (bullets[n].id \in Ids(bullets') /\ bullets[n].id < h.bullet)
                           => ~InRange(bullets[n].pos, ById(enemies', h.enemy).pos)
         /\ bullets' = SelectSeq(bullets, Untouched)
         /\ Len(bullets) - Len(bullets') = Len(hist'.hits)
         /\ Len(hist'.hits) <= Len(enemies)]_vars

C6_Witness ==
    /\ pc = "zone"
    /\ \E i \in 1..Len(enemies), n \in 1..Len(bullets) :
         /\ enemies[i].id \in HitEnemies
         /\ InRange(bullets[n].pos, enemies[i].pos)

\* C7: score is ten times the kill count and the kill count is the number of
\* enemies removed; only the enemy pass changes them, by 10 and 1 for each enemy
\* it removes, and it removes exactly the enemies that a hit of this frame
\* brings to health <= 0.
C7_KillAccounting ==
    /\ [](/\ score = KILL_SCORE * killCount
          /\ Started => killCount = hist.made - Len(enemies))
    /\ [][IF pc = "enemies"
          THEN /\ killCount' - killCount = Cardinality(Ids(enemies) \ Ids(enemies'))
               /\ score' - score = KILL_SCORE * (killCount' - killCount)
               /\ \A id \in Ids(enemies) :
                    id \notin Ids(enemies') <=>
                      (id \in HitEnemies' /\ ById(enemies, id).health - BULLET_DAMAGE <= 0)
          ELSE pc # "setup" => (score' = score /\ killCount' = killCount)]_vars

C7_Witness ==
    /\ killCount = 1
    /\ score = KILL_SCORE
    /\ hist.made = INITIAL_ENEMIES + 1
    /\ Len(enemies) = INITIAL_ENEMIES

\* The bullets the update step must leave: each moved once, those then inside
\* the window or on its boundary kept, in order.
InWindow(b) ==
    /\ 0 <= b.pos[1] /\ b.pos[1] <= WINDOW_WIDTH
    /\ 0 <= b.pos[2] /\ b.pos[2] <= WINDOW_HEIGHT
MovedOnce(bs) == [i \in 1..Len(bs) |-> [bs[i] EXCEPT !.pos = VecAdd(bs[i].pos, bs[i].vel)]]

\* C8: from the bullet update of a frame to the end of the frame every bullet of
\* the list is inside the window or on its boundary; the update keeps exactly the
\* bullets that are there after their move, whether or not they were created
\* outside the window.
C8_BulletsInWindow ==
    /\ []((pc \in {"enemies", "zone", "spawn", "draw", "check"}) =>
            \A i \in 1..Len(bullets) : InWindow(bullets[i]))
    /\ [][pc = "bullets" => bullets' = SelectSeq(MovedOnce(bullets), InWindow)]_vars

C8_Witness ==
    /\ pc = "enemies"
    /\ hist.frames = 118
    /\ ~InWindow(player)
    /\ hist.shots = 2
    /\ bullets = <<>>
    /\ \A i \in 1..Len(enemies) : enemies[i].health = ENEMY_HEALTH
    /\ Len(enemies) = INITIAL_ENEMIES

\* C9: a frame takes the shrink rate off a radius above the floor, which makes it
\* smaller, and leaves a radius at or below the floor as it is: the radius never
\* grows, and a zone that holds never shrinks again.
C9_ZoneOneWay ==
    [][/\ radius > MinRadius =>
            (radius' = F32Sub(radius, SAFE_ZONE_SHRINK_RATE) /\ radius' < radius)
       /\ radius <= MinRadius => radius' = radius]_vars

C9_Witness ==
    /\ hist.frames = 3050
    /\ radius <= MinRadius

\* C10 as stated: the radius never goes below the floor 50.0, and from frame
\* 3000 on it is exactly 50.0.
C10_ReachesFloorExactly ==
    /\ radius >= MinRadius
    /\ hist.frames >= 3000 => radius = MinRadius

(***************************************************************************)
(* C11: in frames in a row that find the player outside the safe zone with *)
(* no enemy in contact range, the first of them begun at health 100, the   *)
(* health after k of them is exactly 100 - k; the end of the session is    *)
(* entered at the end of the 100th and of none before it, and the file     *)
(* then holds the score and the kill count of that frame.                  *)
(***************************************************************************)
AfterZone == {"spawn", "draw", "check"}
EndSteps == {"save", "screen", "pause", "close"}
FrameDone == AfterZone \cup EndSteps \cup {"loop", "done"}

C11_ZoneCountdown ==
    /\ [](hist.run > 0 /\ pc \in FrameDone =>
            /\ player.health = PLAYER_HEALTH - hist.run
            /\ hist.run <= PLAYER_HEALTH
            /\ (hist.run < PLAYER_HEALTH => pc \notin EndSteps /\ hist.log = <<>>
                                              /\ file = <<>>)
            /\ (hist.run = PLAYER_HEALTH /\ pc = "loop" => ~windowOpen)
            /\ (hist.run = PLAYER_HEALTH /\ pc \in {"loop", "done"} =>
                    hist.log = EndSequence /\ file = <<score, killCount>>))
    /\ [][/\ hist.run = PLAYER_HEALTH /\ pc = "check" => pc' = "save"
          /\ hist.run = PLAYER_HEALTH /\ pc = "save" =>
                 file' = <<score, killCount>> /\ score' = score /\ killCount' = killCount
          /\ hist.run = PLAYER_HEALTH => hist'.run = hist.run /\ score' = score
                                          /\ killCount' = killCount]_vars

C11_Witness ==
    /\ hist.run = PLAYER_HEALTH
    /\ pc = "done"
    /\ player.health = 0
    /\ file = <<score, killCount>>

(***************************************************************************)
(* C12: the score file is written only in a frame that ends with the       *)
(* player's health at or below zero; a session that a close signal ends    *)
(* while the player is alive leaves no file, whenever the signal comes.    *)
(***************************************************************************)
C12_FileOnlyAtDeath ==
    /\ (file # <<>> \/ hist.log # <<>> \/ pc \in EndSteps) => player.health <= 0
    /\ (pc = "done" /\ player.health > 0) => ~windowOpen /\ file = <<>>

C12_Witness ==
    /\ pc = "done"
    /\ hist.frames = MaxFrames
    /\ player.health > 0
    /\ player.health < PLAYER_HEALTH
    /\ file = <<>>

(***************************************************************************)
(* C13: the spawn check of a frame appends exactly one enemy and sets the  *)
(* spawn timer to zero if and only if the timer is strictly above the      *)
(* spawn interval and fewer enemies than the cap are active; otherwise it  *)
(* changes neither.  No other step of the frame adds an enemy or lowers    *)
(* the timer, and the frame clock advances by more than the spawn interval *)
(* between one spawn and the next.                                         *)
(***************************************************************************)
C13_SpawnCheck ==
    /\ [][pc = "spawn" =>
            IF timeSinceLastSpawn > SPAWN_INTERVAL /\ Len(enemies) < MAX_ENEMIES
            THEN /\ Len(enemies') = Len(enemies) + 1
                 /\ SubSeq(enemies', 1, Len(enemies)) = enemies
                 /\ timeSinceLastSpawn' = 0
                 /\ hist'.spawns = Append(hist.spawns, clockStart)
            ELSE /\ enemies' = enemies
                 /\ timeSinceLastSpawn' = timeSinceLastSpawn
                 /\ hist'.spawns = hist.spawns]_vars
    /\ [][pc \notin {"spawn", "setup"} =>
            /\ Len(enemies') <= Len(enemies)
            /\ timeSinceLastSpawn' >= timeSinceLastSpawn
            /\ hist'.spawns = hist.spawns]_vars
    /\ [](\A i \in 1..(Len(hist.spawns) - 1) :
            hist.spawns[i + 1] - hist.spawns[i] > SPAWN_INTERVAL)

C13_Witness ==
    /\ pc = "draw"
    /\ Len(enemies) = MAX_ENEMIES
    /\ timeSinceLastSpawn > SPAWN_INTERVAL
    /\ Len(hist.spawns) = MAX_ENEMIES - INITIAL_ENEMIES
    /\ hist.spawns[1] = 2 * SPAWN_INTERVAL

(***************************************************************************)
(* C14: with the enemy count at the cap the spawn timer goes on adding     *)
(* each frame's time and the spawn check leaves it as it is; after every   *)
(* spawn check that sees fewer enemies than the cap the timer is at most   *)
(* the spawn interval, so a timer above the interval spawns in the very    *)
(* frame whose enemy pass brings the count below the cap.                  *)
(***************************************************************************)
C14_SpawnAtCap ==
    /\ [][pc = "move" =>
            timeSinceLastSpawn' = timeSinceLastSpawn + (now' - clockStart)]_vars
    /\ [][pc = "spawn" /\ Len(enemies) >= MAX_ENEMIES =>
            timeSinceLastSpawn' = timeSinceLastSpawn /\ enemies' = enemies]_vars
    /\ [][pc = "spawn" /\ Len(enemies) < MAX_ENEMIES
                       /\ timeSinceLastSpawn > SPAWN_INTERVAL =>
            Len(enemies') = Len(enemies) + 1 /\ timeSinceLastSpawn' = 0]_vars
    /\ [](pc = "draw" /\ timeSinceLastSpawn > SPAWN_INTERVAL =>
            Len(enemies) = MAX_ENEMIES)

\* the frame after one that the cap kept from spawning: a kill brought the
\* count from the cap to nine, and the spawn check of the same frame, its
\* timer at three frames' time, brought it back to the cap
C14_Witness ==
    /\ pc = "draw"
    /\ Len(enemies) = MAX_ENEMIES
    /\ hist.made = MAX_ENEMIES + 1
    /\ killCount = 1
    /\ \E i \in 1..Len(hist.hits) : hist.hits[i].enemy \notin Ids(enemies)
    /\ timeSinceLastSpawn = 0
    /\ Len(hist.spawns) >= 2
    /\ hist.spawns[Len(hist.spawns)] = clockStart
    /\ hist.spawns[Len(hist.spawns)] - hist.spawns[Len(hist.spawns) - 1] = 3 * SPAWN_INTERVAL

(***************************************************************************)
(* C15: an enemy that is at the player's position when its update runs     *)
(* keeps the velocity it had; any other enemy gets a velocity that points  *)
(* from it to the player and has the length of its speed (both to within   *)
(* the rounding of the fixed point).  Stated of the enemies that are still *)
(* active after the pass, each of which has then moved by that velocity.   *)
(***************************************************************************)
Dot(u, v) == u[1] * v[1] + u[2] * v[2]
Cross(u, v) == u[1] * v[2] - u[2] * v[1]
Abs(n) == IF n < 0 THEN 0 - n ELSE n

\* v is, to within one unit in each component, speed times the unit vector
\* along d
Towards(v, d, speed) ==
    /\ Dot(v, d) > 0
    /\ Abs(Cross(d, v)) <= Abs(d[1]) + Abs(d[2])
    /\ Dot(v, v) <= speed * speed
    /\ Dot(v, v) >= (speed - 2) * (speed - 2)

C15_UpdateVelocity ==
    [][pc = "enemies" =>
         \A id \in Ids(enemies) \cap Ids(enemies') :
            LET old == ById(enemies, id)
                new == ById(enemies', id)
            IN  /\ IF old.pos = player.pos
                   THEN new.vel = old.vel
                   ELSE Towards(new.vel, VecSub(player.pos, old.pos), old.speed)
                /\ new.pos = VecAdd(old.pos, new.vel)
                /\ new.speed = old.speed]_vars

\* an enemy that reached the player's position one frame ago has now been
\* carried past it by the velocity it arrived with
C15_Witness ==
    /\ pc = "zone"
    /\ \E i \in 1..Len(enemies) :
          /\ enemies[i].vel # <<0, 0>>
          /\ enemies[i].pos = VecAdd(player.pos, enemies[i].vel)

(***************************************************************************)
(* C16: the player's velocity of a frame depends on the keys held in that  *)
(* frame alone: each held key adds the player's speed along its direction, *)
(* so no key gives the zero vector whatever the velocity was, W with S or  *)
(* A with D gives zero on that axis, and two keys of different axes give   *)
(* the full speed on both; the player then moves by that velocity.         *)
(***************************************************************************)
Held(keys, k) == IF k \in keys THEN 1 ELSE 0

C16_VelocityFromKeys ==
    [][pc = "move" =>
         LET keys == hist'.keys
         IN  /\ player'.vel =
                  <<PLAYER_SPEED * (Held(keys, "D") - Held(keys, "A")),
                    PLAYER_SPEED * (Held(keys, "S") - Held(keys, "W"))>>
             /\ player'.pos = VecAdd(player.pos, player'.vel)
             /\ (keys = {} => player'.vel = <<0, 0>>)
             /\ ({"W", "S"} \subseteq keys => player'.vel[2] = 0)
             /\ ({"A", "D"} \subseteq keys => player'.vel[1] = 0)]_vars

\* no key is held in a frame that follows one of diagonal movement
C16_Witness ==
    /\ pc = "bullets"
    /\ hist.keys = {}
    /\ player.vel = <<0, 0>>
    /\ player.pos = <<Px(600) + PLAYER_SPEED, Px(350) - PLAYER_SPEED>>

(***************************************************************************)
(* C17: the health the player loses in a frame is the number of enemies    *)
(* still active after the enemy pass that are then less than 20 pixels     *)
(* from the player, plus one if the player is outside the zone after the   *)
(* zone has shrunk.  Stated of the state right after the zone step, where  *)
(* hist.health is the player's health at the start of the frame.           *)
(***************************************************************************)
\* the enemies of es less than 20 pixels from p
Touching(es, p) ==
    {i \in 1..Len(es) : LET d == VecSub(p, es[i].pos) IN Dot(d, d) < Px(20) * Px(20)}

\* p is at least the binary32 radius r away from the centre of the window
OutsideZone(r, p) ==
    LET d == VecSub(p, <<Px(600), Px(350)>>)
        c == (10 * r + F32Unit - 1) \div F32Unit
    IN  Dot(d, d) >= c * c

C17_HealthLoss ==
    pc = "spawn" =>
       hist.health - player.health =
          Cardinality(Touching(enemies, player.pos))
             + (IF OutsideZone(radius, player.pos) THEN 1 ELSE 0)

\* outside the zone, an enemy in contact that a bullet hit in this frame
\* without killing it: one point lost to each
C17_Witness ==
    /\ pc = "spawn"
    /\ OutsideZone(radius, player.pos)
    /\ Cardinality(Touching(enemies, player.pos)) = 1
    /\ \E i \in 1..Len(hist.hits) : hist.hits[i].enemy \in Ids(enemies)
    /\ hist.health - player.health = 2

(***************************************************************************)
(* C18: erasing from a list while going through it neither skips nor       *)
(* repeats an element.  The bullet pass moves every bullet once: a bullet  *)
(* that stays has moved by its velocity, one that goes is outside the      *)
(* window after one move, and the order is kept.  The enemy pass goes      *)
(* through the enemies of its start in order, each once; an enemy that     *)
(* stays has moved once by its new velocity, one that goes was hit, the    *)
(* order is kept, and each enemy that stays has had its one contact check. *)
(***************************************************************************)
IdsInOrder(seq) == [i \in 1..Len(seq) |-> seq[i].id]
BulletStays(id) == id \in Ids(bullets')
EnemyStays(id) == id \in Ids(enemies')

C18_EachVisitedOnce ==
    /\ [][pc = "bullets" =>
            /\ IdsInOrder(bullets') = SelectSeq(IdsInOrder(bullets), BulletStays)
            /\ \A i \in 1..Len(bullets) :
                  LET b == bullets[i]
                      p == VecAdd(b.pos, b.vel)
                  IN  IF BulletStays(b.id)
                      THEN ById(bullets', b.id) = [b EXCEPT !.pos = p]
                      ELSE ~(0 <= p[1] /\ p[1] <= WINDOW_WIDTH /\ 0 <= p[2]
                                /\ p[2] <= WINDOW_HEIGHT)]_vars
    /\ [][pc = "enemies" =>
            /\ hist'.seen = IdsInOrder(enemies)
            /\ IdsInOrder(enemies') = SelectSeq(IdsInOrder(enemies), EnemyStays)
            /\ \A i \in 1..Len(enemies) :
                  LET e == enemies[i]
                  IN  IF EnemyStays(e.id)
                      THEN LET n == ById(enemies', e.id)
                           IN  /\ n.pos = VecAdd(e.pos, n.vel)
                               /\ n.health > 0
                      ELSE /\ e.id \in HitEnemies'
                           /\ e.health <= BULLET_DAMAGE
            /\ Len(hist'.hits) = Len(bullets) - Len(bullets')
            /\ player.health - player'.health =
                  Cardinality(Touching(enemies', player.pos))]_vars

\* an enemy was erased in this pass, and the pass went on to the enemy after
\* it, which is still active
C18_Witness ==
    /\ pc = "zone"
    /\ \E k \in 1..(Len(hist.seen) - 1) :
          /\ hist.seen[k] \notin Ids(enemies)
          /\ hist.seen[k + 1] \in Ids(enemies)

(***************************************************************************)
(* C19: at most ten enemies are ever active.  Construction makes five, and *)
(* the only step that adds to them afterwards is a spawn check that finds  *)
(* fewer than ten and adds one.                                            *)
(***************************************************************************)
C19_EnemyCap ==
    /\ [](Len(enemies) <= MAX_ENEMIES)
    /\ [][pc = "setup" => Len(enemies') = INITIAL_ENEMIES]_vars
    /\ [][pc # "setup" /\ Len(enemies') > Len(enemies) =>
            /\ pc = "spawn"
            /\ Len(enemies) < MAX_ENEMIES
            /\ Len(enemies') = Len(enemies) + 1]_vars

\* a spawn check that finds ten enemies and the timer above the interval
C19_Witness ==
    /\ pc = "spawn"
    /\ Len(enemies) = MAX_ENEMIES
    /\ timeSinceLastSpawn > SPAWN_INTERVAL

(***************************************************************************)
(* C20: every enemy of the active set has health above zero in every state *)
(* outside the enemy pass, so at its end, when the frame is drawn and when *)
(* the next frame starts.  The pass erases exactly the enemies whose hit   *)
(* takes their health to zero or below, and an erased enemy never returns: *)
(* an enemy that joins the set is a newly constructed one.                 *)
(***************************************************************************)
C20_ActiveEnemiesAlive ==
    /\ [](\A i \in 1..Len(enemies) :
            /\ enemies[i].health > 0
            /\ enemies[i].id \in 1..hist.made
            /\ \A j \in 1..Len(enemies) : enemies[j].id = enemies[i].id => j = i)
    /\ [][pc = "enemies" =>
            \A id \in Ids(enemies) :
               id \notin Ids(enemies') <=>
                  (id \in HitEnemies' /\ ById(enemies, id).health - BULLET_DAMAGE <= 0)]_vars
    /\ [][pc # "setup" => Ids(enemies') \ Ids(enemies) \subseteq {hist.made + 1}]_vars

\* the pass just over erased the enemy its hit killed; the others are active
C20_Witness ==
    /\ pc = "zone"
    /\ \E k \in 1..Len(hist.hits) : hist.hits[k].enemy \notin Ids(enemies)
    /\ killCount = 1
    /\ Len(enemies) = hist.made - killCount
    /\ \A i \in 1..Len(enemies) : enemies[i].health = ENEMY_HEALTH

====
